---- MODULE Spec2Model ----
(***************************************************************************)
(* Pylot_demo.py: the demonstration script of the Pylot interactive        *)
(* execution feature.  The script is a flat list of sixteen top-level      *)
(* statements.  A run executes a contiguous selection of these statements  *)
(* in one Python interpreter whose namespace and figures persist from run  *)
(* to run (lines 3-4, 11-14: the block at the cursor or a selection is     *)
(* executed).  The user works through the script from top to bottom: the   *)
(* first selection starts anywhere, each later one at the statement after  *)
(* the selection before.  The selection 1..16 is a run of the whole        *)
(* script.  The program counter pc is a source line number.                *)
(***************************************************************************)
EXTENDS Integers, Sequences, FiniteSets, TLC

VARIABLES
    sel,        \* <<first, last>> statement of the current selection
    status,     \* "ready" | "running" | "finished" | "error"
    pc,         \* source line executed next (or last, once the run ended)
    err,        \* the exception that ended the run, "" if none
    ns,         \* names bound in the interpreter's namespace
    i,          \* value of the loop variable i
    idx,        \* items the active for-loop has consumed
    n,          \* value of n (line 42)
    xlen,       \* length of the array bound to x (0: unbound)
    val,        \* value of the expression line, <<>> before it is evaluated
    events,     \* this run's observable events, in order of occurrence
    figs,       \* pyplot's figures, in order of creation
    visible,    \* figures whose window is on screen
    closed,     \* figures whose window the user has closed
    sleeping,   \* TRUE while time.sleep has not returned
    remaining,  \* seconds the current sleep still has to wait
    elapsed     \* seconds slept in this run

vars == <<sel, status, pc, err, ns, i, idx, n, xlen, val, events,
          figs, visible, closed, sleeping, remaining, elapsed>>

----------------------------------------------------------------------------
\* Literals of the script.

\* line 6
Greeting == <<"h","e","l","l","o"," ","w","o","r","l","d","!">>
\* line 19
WaitWord == <<"W","a","i","t">>
StarUnit == <<"*"," ">>
WaitSeqAscending == <<1, 2, 3, 4, 5>>
\* line 18
WaitSeq == <<5, 4, 3, 2, 1>>
\* line 20
SleepSecs == 1
\* line 23
WeDivide == <<"W","e"," ","d","i","v","i","d","e"," ","5"," ","b","y"," ",
              "z","e","r","o",":">>
\* line 24
TheResultIs == <<"T","h","e"," ","r","e","s","u","l","t"," ","i","s",":">>
\* line 32, 34
NumPoints == 500
\* line 33
Fig1Seq == <<1, 2, 3>>
\* line 35, 36
OffsetStep == 5
\* line 42
NumCurves == 100
\* line 44
NumSamples == 250

HandlersAroundDivision == {<<22, 24>>}
\* The try/except regions of the script, each as <<first line, last line>>:
\* it has none.
Handlers == {}

\* The top-level statements, each as <<first line, last line>>.
StmtsSwapped ==
    << <<9, 9>>, <<6, 6>>, <<12, 14>>, <<17, 17>>, <<18, 20>>, <<22, 24>>,
       <<28, 28>>, <<29, 29>>, <<31, 31>>, <<32, 32>>, <<33, 36>>, <<37, 37>>,
       <<41, 41>>, <<42, 42>>, <<43, 47>>, <<48, 48>> >>
Stmts ==
    << <<6, 6>>, <<9, 9>>, <<12, 14>>, <<17, 17>>, <<18, 20>>, <<22, 24>>,
       <<28, 28>>, <<29, 29>>, <<31, 31>>, <<32, 32>>, <<33, 36>>, <<37, 37>>,
       <<41, 41>>, <<42, 42>>, <<43, 47>>, <<48, 48>> >>

NumStmts == Len(Stmts)

StmtOf(line) == CHOOSE s \in 1..NumStmts : Stmts[s][1] <= line /\ line <= Stmts[s][2]

\* Names a line reads that no earlier line of the same statement binds.
Needs(line) ==
    CASE line = 20 -> {"time"}
      [] line \in {31, 37, 41, 48} -> {"plt"}
      [] line \in {32, 34, 42, 44} -> {"numpy"}
      [] line \in {35, 36} -> {"plt", "x"}
      [] line = 43 -> {"n"}
      [] line = 45 -> {"n", "numpy", "r0"}
      [] line = 46 -> {"n", "numpy", "r1"}
      [] line = 47 -> {"plt", "n"}
      [] OTHER -> {}

----------------------------------------------------------------------------
\* Python built-ins the script uses.

RECURSIVE Rep(_, _)
\* s * k for a string s
Rep(s, k) == IF k <= 0 THEN <<>> ELSE s \o Rep(s, k - 1)

RECURSIVE Join(_)
\* the arguments separated by one space
Join(args) ==
    IF args = <<>> THEN <<>>
    ELSE IF Len(args) = 1 THEN args[1]
    ELSE args[1] \o <<" ">> \o Join(Tail(args))

PyPrintTrailingSep(args) == Join(args) \o <<" ">>
\* the line print(*args) writes (without its terminating newline)
PyPrint(args) == Join(args)

Digit(d) == <<"0","1","2","3","4","5","6","7","8","9">>[d + 1]

RECURSIVE Repr(_)
\* repr of a non-negative int
Repr(k) == IF k < 10 THEN <<Digit(k)>> ELSE Repr(k \div 10) \o <<Digit(k % 10)>>

PyAddOffByOne(a, b) == a + b + 1
\* int + int
PyAdd(a, b) == a + b

TrueDivLenient(a, b) ==
    IF b = 0 THEN [ok |-> TRUE, exc |-> "", num |-> 0, den |-> 1]
    ELSE [ok |-> TRUE, exc |-> "", num |-> a, den |-> b]
\* a / b: the quotient as the fraction num/den, or the exception raised
TrueDiv(a, b) ==
    IF b = 0 THEN [ok |-> FALSE, exc |-> "ZeroDivisionError", num |-> 0, den |-> 1]
    ELSE [ok |-> TRUE, exc |-> "", num |-> a, den |-> b]

\* a float shown by print (exact when den divides num)
ReprFloat(q) == Repr(q.num \div q.den) \o <<".", "0">>

RangeInclusive(k) == [j \in 1..(k + 1) |-> j - 1]
\* range(k) as the sequence 0, 1, ..., k-1
PyRange(k) == [j \in 1..k |-> j - 1]

----------------------------------------------------------------------------
\* pyplot: figures and the current figure.

EmptyFig == [lines |-> <<>>, fills |-> <<>>]

OpenFigs(fs, cl) == {f \in 1..Len(fs) : f \notin cl}

GcfOldest(fs, cl) ==
    IF OpenFigs(fs, cl) = {} THEN 0
    ELSE CHOOSE f \in OpenFigs(fs, cl) : \A g \in OpenFigs(fs, cl) : f <= g
\* the current figure: the newest one still open, 0 if there is none
Gcf(fs, cl) ==
    IF OpenFigs(fs, cl) = {} THEN 0
    ELSE CHOOSE f \in OpenFigs(fs, cl) : \A g \in OpenFigs(fs, cl) : g <= f

\* figures as the drawing calls find them: a figure is made if none is open
WithCurrent(fs, cl) == IF Gcf(fs, cl) = 0 THEN Append(fs, EmptyFig) ELSE fs
Target(fs, cl) == IF Gcf(fs, cl) = 0 THEN Len(fs) + 1 ELSE Gcf(fs, cl)

\* plt.plot: one more line in the current figure
PlotLine(fs, cl, ln) ==
    [WithCurrent(fs, cl) EXCEPT ![Target(fs, cl)].lines = Append(@, ln)]

\* plt.fill_between: one more band in the current figure
FillBand(fs, cl, band) ==
    [WithCurrent(fs, cl) EXCEPT ![Target(fs, cl)].fills = Append(@, band)]

----------------------------------------------------------------------------
\* Control flow shared by the statements.

Ev(kind, line, text, exc, fig) ==
    [kind |-> kind, line |-> line, text |-> text, exc |-> exc, fig |-> fig]

Covers(s) == sel[1] <= s /\ s <= sel[2]

\* the interpreter is about to execute `line`
At(line) == status = "running" /\ pc = line /\ ~sleeping

Unbound(line) == Needs(line) \ ns # {}

\* control passes to another line of the same statement
Goto(line) == pc' = line /\ status' = "running" /\ err' = err

\* statement s is complete: the next selected statement follows, or the run ends
EndStmt(s) ==
    /\ err' = err
    /\ IF s = sel[2]
       THEN status' = "finished" /\ pc' = pc
       ELSE status' = "running" /\ pc' = Stmts[s + 1][1]

\* an exception is raised at pc: no handler encloses any line, so the run ends
Raise(exc) ==
    IF \E h \in Handlers : h[1] <= pc /\ pc <= h[2]
    THEN /\ events' = Append(events, Ev("caught", pc, <<>>, exc, 0))
         /\ EndStmt(StmtOf(pc))
    ELSE /\ events' = Append(events, Ev("raise", pc, <<>>, exc, 0))
         /\ status' = "error"
         /\ err' = exc
         /\ pc' = pc

sleepv == <<sleeping, remaining, elapsed>>
guiv == <<figs, visible, closed>>

----------------------------------------------------------------------------
Init ==
    /\ sel = <<0, 0>>
    /\ status = "ready"
    /\ pc = 0
    /\ err = ""
    /\ ns = {}
    /\ i = 0
    /\ idx = 0
    /\ n = 0
    /\ xlen = 0
    /\ val = <<>>
    /\ events = <<>>
    /\ figs = <<>>
    /\ visible = {}
    /\ closed = {}
    /\ sleeping = FALSE
    /\ remaining = 0
    /\ elapsed = 0

\* The user asks for statements from..to to be executed: the first request
\* starts at any statement, each later one where the one before ended.
Execute(from, to) ==
    /\ status # "running"
    /\ sel[2] = 0 \/ from = sel[2] + 1
    /\ sel' = <<from, to>>
    /\ status' = "running"
    /\ pc' = Stmts[from][1]
    /\ err' = ""
    /\ idx' = 0
    /\ val' = <<>>
    /\ events' = <<>>
    /\ elapsed' = 0
    /\ UNCHANGED <<ns, i, n, xlen, figs, visible, closed, sleeping, remaining>>

\* The value shown for an expression line: always when the line is executed
\* alone (line 8), and by the executing front end's choice otherwise.
Echo == IF sel[1] = sel[2] THEN {TRUE} ELSE BOOLEAN

\* line 6
PrintGreeting ==
    /\ At(6)
    /\ events' = Append(events, Ev("print", 6, PyPrint(<<Greeting>>), "", 0))
    /\ EndStmt(StmtOf(6))
    /\ UNCHANGED <<sel, ns, i, idx, n, xlen, val, guiv, sleepv>>

\* line 9
ExprLine ==
    /\ At(9)
    /\ val' = <<PyAdd(1, 2)>>
    /\ \E shown \in Echo :
         events' = IF shown
                   THEN Append(events, Ev("display", 9, Repr(PyAdd(1, 2)), "", 0))
                   ELSE events
    /\ EndStmt(StmtOf(9))
    /\ UNCHANGED <<sel, ns, i, idx, n, xlen, guiv, sleepv>>

\* lines 12-14
AssignMultiline ==
    /\ At(12)
    /\ ns' = ns \cup {"multiline"}
    /\ EndStmt(StmtOf(12))
    /\ UNCHANGED <<sel, i, idx, n, xlen, val, events, guiv, sleepv>>

\* line 17
ImportTime ==
    /\ At(17)
    /\ ns' = ns \cup {"time"}
    /\ EndStmt(StmtOf(17))
    /\ UNCHANGED <<sel, i, idx, n, xlen, val, events, guiv, sleepv>>

\* line 18
WaitFor ==
    /\ At(18)
    /\ IF idx < Len(WaitSeq)
       THEN /\ i' = WaitSeq[idx + 1]
            /\ idx' = idx + 1
            /\ ns' = ns \cup {"i"}
            /\ Goto(19)
       ELSE /\ idx' = 0
            /\ EndStmt(StmtOf(18))
            /\ UNCHANGED <<i, ns>>
    /\ UNCHANGED <<sel, n, xlen, val, events, guiv, sleepv>>

\* line 19
WaitPrint ==
    /\ At(19)
    /\ events' = Append(events,
                        Ev("print", 19, PyPrint(<<WaitWord, Rep(StarUnit, i)>>), "", 0))
    /\ Goto(20)
    /\ UNCHANGED <<sel, ns, i, idx, n, xlen, val, guiv, sleepv>>

SleepBeginAsync ==
    /\ At(20)
    /\ IF Unbound(20)
       THEN Raise("NameError") /\ UNCHANGED sleepv
       ELSE /\ sleeping' = TRUE
            /\ remaining' = SleepSecs
            /\ Goto(18)
            /\ UNCHANGED <<events, elapsed>>
    /\ UNCHANGED <<sel, ns, i, idx, n, xlen, val, guiv>>
\* line 20: time.sleep(1) is entered
SleepBegin ==
    /\ At(20)
    /\ IF Unbound(20)
       THEN Raise("NameError") /\ UNCHANGED sleepv
       ELSE /\ sleeping' = TRUE
            /\ remaining' = SleepSecs
            /\ UNCHANGED <<status, pc, err, events, elapsed>>
    /\ UNCHANGED <<sel, ns, i, idx, n, xlen, val, guiv>>

\* line 20: a second of the sleep passes
Tick ==
    /\ sleeping
    /\ remaining > 0
    /\ remaining' = remaining - 1
    /\ elapsed' = elapsed + 1
    /\ UNCHANGED <<sel, status, pc, err, ns, i, idx, n, xlen, val, events, guiv,
                   sleeping>>

\* line 20: time.sleep(1) returns
SleepEnd ==
    /\ sleeping
    /\ remaining = 0
    /\ sleeping' = FALSE
    /\ Goto(18)
    /\ UNCHANGED <<sel, ns, i, idx, n, xlen, val, events, guiv, remaining, elapsed>>

\* line 22
IfTrue ==
    /\ At(22)
    /\ Goto(23)
    /\ UNCHANGED <<sel, ns, i, idx, n, xlen, val, events, guiv, sleepv>>

\* line 23
PrintDivide ==
    /\ At(23)
    /\ events' = Append(events, Ev("print", 23, PyPrint(<<WeDivide>>), "", 0))
    /\ Goto(24)
    /\ UNCHANGED <<sel, ns, i, idx, n, xlen, val, guiv, sleepv>>

\* line 24: the arguments are evaluated before print is called
PrintResult ==
    /\ At(24)
    /\ IF ~TrueDiv(5, 0).ok
       THEN Raise(TrueDiv(5, 0).exc)
       ELSE /\ events' = Append(events,
                   Ev("print", 24,
                      PyPrint(<<TheResultIs, ReprFloat(TrueDiv(5, 0))>>), "", 0))
            /\ EndStmt(StmtOf(24))
    /\ UNCHANGED <<sel, ns, i, idx, n, xlen, val, guiv, sleepv>>

\* line 28
ImportNumpy ==
    /\ At(28)
    /\ ns' = ns \cup {"numpy"}
    /\ EndStmt(StmtOf(28))
    /\ UNCHANGED <<sel, i, idx, n, xlen, val, events, guiv, sleepv>>

\* line 29
ImportPlt ==
    /\ At(29)
    /\ ns' = ns \cup {"plt"}
    /\ EndStmt(StmtOf(29))
    /\ UNCHANGED <<sel, i, idx, n, xlen, val, events, guiv, sleepv>>

\* fig = plt.figure(): a new, empty figure becomes the current one
PltFigure(line) ==
    /\ At(line)
    /\ IF Unbound(line)
       THEN Raise("NameError") /\ UNCHANGED <<ns, figs>>
       ELSE /\ figs' = Append(figs, EmptyFig)
            /\ ns' = ns \cup {"fig"}
            /\ events' = Append(events, Ev("figure", line, <<>>, "", Len(figs) + 1))
            /\ EndStmt(StmtOf(line))
    /\ UNCHANGED <<sel, i, idx, n, xlen, val, visible, closed, sleepv>>

PltShowBlocking(line) ==
    /\ At(line)
    /\ IF Unbound(line)
       THEN Raise("NameError") /\ UNCHANGED visible
       ELSE /\ visible' = OpenFigs(figs, closed)
            /\ IF OpenFigs(figs, closed) = {}
               THEN /\ events' = Append(events, Ev("show", line, <<>>, "", 0))
                    /\ EndStmt(StmtOf(line))
               ELSE UNCHANGED <<status, pc, err, events>>
    /\ UNCHANGED <<sel, ns, i, idx, n, xlen, val, figs, closed, sleepv>>
\* plt.show(): every open figure is put on screen and the call returns
PltShow(line) ==
    /\ At(line)
    /\ IF Unbound(line)
       THEN Raise("NameError") /\ UNCHANGED visible
       ELSE /\ visible' = OpenFigs(figs, closed)
            /\ events' = Append(events, Ev("show", line, <<>>, "", 0))
            /\ EndStmt(StmtOf(line))
    /\ UNCHANGED <<sel, ns, i, idx, n, xlen, val, figs, closed, sleepv>>

\* line 31
Figure1 == PltFigure(31)

\* line 32
Linspace ==
    /\ At(32)
    /\ IF Unbound(32)
       THEN Raise("NameError") /\ UNCHANGED <<ns, xlen>>
       ELSE /\ ns' = ns \cup {"x"}
            /\ xlen' = NumPoints
            /\ EndStmt(StmtOf(32))
            /\ UNCHANGED events
    /\ UNCHANGED <<sel, i, idx, n, val, guiv, sleepv>>

\* line 33
Fig1For ==
    /\ At(33)
    /\ IF idx < Len(Fig1Seq)
       THEN /\ i' = Fig1Seq[idx + 1]
            /\ idx' = idx + 1
            /\ ns' = ns \cup {"i"}
            /\ Goto(34)
       ELSE /\ idx' = 0
            /\ EndStmt(StmtOf(33))
            /\ UNCHANGED <<i, ns>>
    /\ UNCHANGED <<sel, n, xlen, val, events, guiv, sleepv>>

\* line 34: y is a fresh array of NumPoints values
Fig1Rand ==
    /\ At(34)
    /\ IF Unbound(34)
       THEN Raise("NameError") /\ UNCHANGED ns
       ELSE /\ ns' = ns \cup {"y"}
            /\ Goto(35)
            /\ UNCHANGED events
    /\ UNCHANGED <<sel, i, idx, n, xlen, val, guiv, sleepv>>

\* line 35: x and y must have the same length
Fig1Plot ==
    /\ At(35)
    /\ IF Unbound(35)
       THEN Raise("NameError") /\ UNCHANGED figs
       ELSE IF xlen # NumPoints
       THEN Raise("ValueError") /\ UNCHANGED figs
       ELSE /\ figs' = PlotLine(figs, closed, [off |-> OffsetStep * i, col |-> <<>>])
            /\ Goto(36)
            /\ UNCHANGED events
    /\ UNCHANGED <<sel, ns, i, idx, n, xlen, val, visible, closed, sleepv>>

\* line 36
Fig1Fill ==
    /\ At(36)
    /\ IF Unbound(36)
       THEN Raise("NameError") /\ UNCHANGED figs
       ELSE IF xlen # NumPoints
       THEN Raise("ValueError") /\ UNCHANGED figs
       ELSE /\ figs' = FillBand(figs, closed, [off |-> OffsetStep * i])
            /\ Goto(33)
            /\ UNCHANGED events
    /\ UNCHANGED <<sel, ns, i, idx, n, xlen, val, visible, closed, sleepv>>

\* line 37
Show1 == PltShow(37)

\* line 41
Figure2 == PltFigure(41)

\* line 42
AssignN ==
    /\ At(42)
    /\ IF Unbound(42)
       THEN Raise("NameError") /\ UNCHANGED <<ns, n>>
       ELSE /\ n' = NumCurves
            /\ ns' = ns \cup {"n", "r0", "r1"}
            /\ EndStmt(StmtOf(42))
            /\ UNCHANGED events
    /\ UNCHANGED <<sel, i, idx, xlen, val, guiv, sleepv>>

\* line 43
Fig2For ==
    /\ At(43)
    /\ IF Unbound(43)
       THEN Raise("NameError") /\ UNCHANGED <<i, idx, ns>>
       ELSE IF idx < Len(PyRange(n))
       THEN /\ i' = PyRange(n)[idx + 1]
            /\ idx' = idx + 1
            /\ ns' = ns \cup {"i"}
            /\ Goto(44)
            /\ UNCHANGED events
       ELSE /\ idx' = 0
            /\ EndStmt(StmtOf(43))
            /\ UNCHANGED <<i, ns, events>>
    /\ UNCHANGED <<sel, n, xlen, val, guiv, sleepv>>

\* line 44
Fig2T ==
    /\ At(44)
    /\ IF Unbound(44)
       THEN Raise("NameError") /\ UNCHANGED ns
       ELSE /\ ns' = ns \cup {"t"}
            /\ Goto(45)
            /\ UNCHANGED events
    /\ UNCHANGED <<sel, i, idx, n, xlen, val, guiv, sleepv>>

\* line 45: x is rebound to an array of NumSamples values
Fig2X ==
    /\ At(45)
    /\ IF Unbound(45)
       THEN Raise("NameError") /\ UNCHANGED <<ns, xlen>>
       ELSE /\ ns' = ns \cup {"x"}
            /\ xlen' = NumSamples
            /\ Goto(46)
            /\ UNCHANGED events
    /\ UNCHANGED <<sel, i, idx, n, val, guiv, sleepv>>

\* line 46
Fig2Y ==
    /\ At(46)
    /\ IF Unbound(46)
       THEN Raise("NameError") /\ UNCHANGED ns
       ELSE /\ ns' = ns \cup {"y"}
            /\ Goto(47)
            /\ UNCHANGED events
    /\ UNCHANGED <<sel, i, idx, n, xlen, val, guiv, sleepv>>

\* line 47: the colour index is float(i)/n
Fig2Plot ==
    /\ At(47)
    /\ IF Unbound(47)
       THEN Raise("NameError") /\ UNCHANGED figs
       ELSE IF ~TrueDiv(i, n).ok
       THEN Raise(TrueDiv(i, n).exc) /\ UNCHANGED figs
       ELSE /\ figs' = PlotLine(figs, closed,
                         [off |-> 0, col |-> <<TrueDiv(i, n).num, TrueDiv(i, n).den>>])
            /\ Goto(43)
            /\ UNCHANGED events
    /\ UNCHANGED <<sel, ns, i, idx, n, xlen, val, visible, closed, sleepv>>

\* line 48
Show2 == PltShow(48)

\* The user closes the window of a figure that is on screen (lines 26, 39).
CloseWindow(f) ==
    /\ f \in visible
    /\ visible' = visible \ {f}
    /\ closed' = closed \cup {f}
    /\ UNCHANGED <<sel, status, pc, err, ns, i, idx, n, xlen, val, events, figs,
                   sleepv>>

\* One step of the interpreter.
Interp ==
    \/ PrintGreeting
    \/ ExprLine
    \/ AssignMultiline
    \/ ImportTime
    \/ WaitFor
    \/ WaitPrint
    \/ SleepBegin
    \/ Tick
    \/ SleepEnd
    \/ IfTrue
    \/ PrintDivide
    \/ PrintResult
    \/ ImportNumpy
    \/ ImportPlt
    \/ Figure1
    \/ Linspace
    \/ Fig1For
    \/ Fig1Rand
    \/ Fig1Plot
    \/ Fig1Fill
    \/ Show1
    \/ Figure2
    \/ AssignN
    \/ Fig2For
    \/ Fig2T
    \/ Fig2X
    \/ Fig2Y
    \/ Fig2Plot
    \/ Show2

User ==
    \/ \E from \in 1..NumStmts : \E to \in from..NumStmts : Execute(from, to)
    \/ \E f \in visible : CloseWindow(f)

Next == Interp \/ User

Spec == Init /\ [][Next]_vars

\* The interpreter runs whenever it can, and time passes while it sleeps.
FairSpec == Spec /\ WF_vars(Interp)

----------------------------------------------------------------------------
\* Vocabulary of the properties.

\* statement s of the current selection has been executed to its end
Done(s) == Covers(s) /\ (status = "finished" \/ (status # "ready" /\ pc > Stmts[s][2]))

EventsAt(line) == SelectSeq(events, LAMBDA e : e.line = line)
EventsOf(kinds) == SelectSeq(events, LAMBDA e : e.kind \in kinds)

HelloText == <<"h","e","l","l","o"," ","w","o","r","l","d","!">>

ExpectedWait ==
    << <<"W","a","i","t"," ","*"," ","*"," ","*"," ","*"," ","*"," ">>,
       <<"W","a","i","t"," ","*"," ","*"," ","*"," ","*"," ">>,
       <<"W","a","i","t"," ","*"," ","*"," ","*"," ">>,
       <<"W","a","i","t"," ","*"," ","*"," ">>,
       <<"W","a","i","t"," ","*"," ">> >>

\* the figure this run created at `line` (31 or 41), 0 if it created none
FigureOf(line) ==
    IF \E k \in 1..Len(events) : events[k].kind = "figure" /\ events[k].line = line
    THEN (CHOOSE e \in {events[k] : k \in 1..Len(events)} :
              e.kind = "figure" /\ e.line = line).fig
    ELSE 0

InLoop(first, last) == status = "running" /\ first <= pc /\ pc <= last

----------------------------------------------------------------------------
\* C1: once line 24 of a run has been executed the run has ended there with an
\* uncaught ZeroDivisionError: nothing catches it and nothing follows it.
C1_DivisionByZeroUncaught ==
    Covers(6) =>
        /\ ~Done(6)
        /\ \A k \in 1..Len(events) : events[k].kind # "caught"
        /\ (status = "error" /\ pc = 24) =>
               /\ err = "ZeroDivisionError"
               /\ events[Len(events)] = Ev("raise", 24, <<>>, "ZeroDivisionError", 0)

C1_Witness == status = "error" /\ pc = 24 /\ err = "ZeroDivisionError"

C2_WaitState ==
    Covers(5) =>
        /\ Len(EventsAt(19)) <= 5
        /\ \A k \in 1..Len(EventsAt(19)) :
               EventsAt(19)[k] = Ev("print", 19, ExpectedWait[k], "", 0)
        /\ elapsed <= Len(EventsAt(19))
        /\ Len(EventsAt(19)) <= elapsed + 1
        /\ InLoop(18, 20) => idx \in {Len(EventsAt(19)), Len(EventsAt(19)) + 1}
        /\ Done(5) => Len(EventsAt(19)) = 5 /\ elapsed = 5

\* C2: the wait loop prints its messages for i = 5, 4, 3, 2, 1 in that order,
\* each "Wait" followed by i times "* ", sleeps one second after each, has
\* printed five and slept five seconds when it is complete, and, once begun
\* with time imported, does complete.
C2_WaitLoop ==
    /\ []C2_WaitState
    /\ (At(18) /\ idx = 0 /\ "time" \in ns) ~> Done(5)

C2_Witness == Done(5) /\ Len(EventsAt(19)) = 5 /\ elapsed = 5

\* C3 as claimed: after the whole script has run, both show calls have been made.
C3_Original ==
    (sel = <<1, 16>> /\ status \in {"finished", "error"}) =>
        Len(EventsOf({"show"})) = 2

\* C3 amended: a run that executes lines 31-37 to the end creates a figure,
\* draws 3 lines into it and then calls show; one that executes lines 41-48
\* creates a figure, draws 100 lines and then calls show; after a run of lines
\* 28-48 both show calls have been made; a run that includes line 24 creates
\* no figure and calls show never.
C3_FiguresRendered ==
    /\ (Covers(9) /\ Done(12)) =>
           /\ FigureOf(31) # 0
           /\ Len(figs[FigureOf(31)].lines) = 3
           /\ EventsAt(31) \o EventsAt(37) =
                  <<Ev("figure", 31, <<>>, "", FigureOf(31)), Ev("show", 37, <<>>, "", 0)>>
    /\ (Covers(13) /\ Done(16)) =>
           /\ FigureOf(41) # 0
           /\ Len(figs[FigureOf(41)].lines) = 100
           /\ EventsAt(41) \o EventsAt(48) =
                  <<Ev("figure", 41, <<>>, "", FigureOf(41)), Ev("show", 48, <<>>, "", 0)>>
    /\ (sel = <<7, 16>> /\ status = "finished") =>
           /\ Len(EventsOf({"show"})) = 2
           /\ FigureOf(31) # FigureOf(41)
    /\ Covers(6) => EventsOf({"figure", "show"}) = <<>>

C3_Witness == sel = <<7, 16>> /\ status = "finished"

C4_ShowReturns ==
    [][(At(37) \/ At(48)) /\ "plt" \in ns /\ closed' = closed
         => /\ visible' = OpenFigs(figs, closed)
            /\ pc' > pc \/ status' = "finished"]_vars

C4_OnScreen ==
    /\ (Covers(9) /\ Done(12) /\ FigureOf(31) \notin closed) => FigureOf(31) \in visible
    /\ (Covers(9) /\ Covers(13) /\ Done(16) /\ closed = {}) =>
           {FigureOf(31), FigureOf(41)} \subseteq visible

C5_Greeting ==
    Done(1) =>
        /\ events # <<>>
        /\ events[1] = Ev("print", 6, HelloText, "", 0)
        /\ \A k \in 2..Len(events) : events[k].line # 6 /\ events[k].text # HelloText

C5_Witness == Done(1) /\ Len(events) > 1

\* C6: once line 9 has been executed its value is 3; whatever is displayed for
\* the line is the text "3"; and it is displayed when the line is executed on
\* its own.
C6_ExpressionValue ==
    Done(2) =>
        /\ val = <<3>>
        /\ \A k \in 1..Len(EventsAt(9)) : EventsAt(9)[k] = Ev("display", 9, <<"3">>, "", 0)
        /\ Len(EventsAt(9)) <= 1
        /\ sel = <<2, 2>> => Len(EventsAt(9)) = 1

C6_Witness == sel = <<2, 2>> /\ status = "finished" /\ Len(events) = 1

\* a step from the last line of a loop body back to the loop's header
BackEdge(a, b) ==
    /\ StmtOf(a) = StmtOf(b)
    /\ a = Stmts[StmtOf(a)][2]
    /\ b = Stmts[StmtOf(a)][1]

EventsInSourceOrder ==
    \A k \in 1..(Len(events) - 1) : events[k].line <= events[k + 1].line

StepsInSourceOrder ==
    [][status = "running"
         => /\ pc' >= pc \/ BackEdge(pc, pc')
            /\ Len(events') <= Len(events) + 1
            /\ Len(events') = Len(events) + 1
                 => /\ SubSeq(events', 1, Len(events)) = events
                    /\ events'[Len(events')].line = pc]_vars

\* C7: within a run control only moves down the source, except from the end
\* of a loop body back to its header; every event is produced by the line at
\* pc, one at a time; so the run's events are in the order of their lines.
C7_Sequential == StepsInSourceOrder /\ []EventsInSourceOrder

C7_Witness == sel = <<1, 16>> /\ status = "error" /\ Len(events) >= 8

SleepBlocks ==
    [][sleeping
         => /\ events' = events /\ figs' = figs /\ ns' = ns /\ i' = i /\ idx' = idx
            /\ status' = status
            /\ pc' = pc \/ (~sleeping' /\ remaining = 0)
            /\ sleeping' \/ remaining = 0]_vars

SleepAfterMessage ==
    sleeping =>
        /\ status = "running" /\ pc = 20
        /\ events # <<>>
        /\ events[Len(events)] = Ev("print", 19, ExpectedWait[6 - i], "", 0)

\* C8: while a sleep is in progress the interpreter stays at line 20, no
\* statement takes effect, and the sleep ends only when its second has
\* passed; the iteration's message is the last event before the sleep.
C8_SleepBlocking == SleepBlocks /\ []SleepAfterMessage

C8_Witness == sleeping /\ remaining = 0 /\ i = 1

\* C9: a run of the whole script never passes line 24 and so never finishes:
\* it creates no figure and never calls show, prints nothing from line 24, and
\* when it has ended at line 24 "We divide 5 by zero:" was printed just before
\* the error was raised.
C9_WholeRunEndsAtError ==
    sel = <<1, 16>> =>
        /\ pc <= 24
        /\ status # "finished"
        /\ figs = <<>> /\ visible = {}
        /\ EventsOf({"figure", "show"}) = <<>>
        /\ \A k \in 1..Len(events) : events[k].line = 24 => events[k].kind = "raise"
        /\ status = "error" =>
               /\ pc = 24
               /\ Len(events) >= 2
               /\ events[Len(events) - 1] =
                      Ev("print", 23,
                         <<"W","e"," ","d","i","v","i","d","e"," ","5"," ","b","y"," ",
                           "z","e","r","o",":">>, "", 0)
               /\ events[Len(events)].kind = "raise"

C9_Witness == sel = <<1, 16>> /\ status = "error" /\ pc = 24

ColourInUnitInterval(ln) == 0 <= ln.col[1] /\ ln.col[1] < ln.col[2]

Fig1Content ==
    (Covers(9) /\ Covers(11) /\ FigureOf(31) # 0) =>
        /\ Len(figs[FigureOf(31)].lines) <= 3
        /\ \A k \in 1..Len(figs[FigureOf(31)].lines) :
               figs[FigureOf(31)].lines[k] = [off |-> 5 * k, col |-> <<>>]
        /\ Len(figs[FigureOf(31)].fills) <= 3
        /\ \A k \in 1..Len(figs[FigureOf(31)].fills) :
               figs[FigureOf(31)].fills[k] = [off |-> 5 * k]
        /\ Done(11) =>
               Len(figs[FigureOf(31)].lines) = 3 /\ Len(figs[FigureOf(31)].fills) = 3

Fig2Content ==
    (Covers(13) /\ Covers(15) /\ FigureOf(41) # 0) =>
        /\ Len(figs[FigureOf(41)].lines) <= 100
        /\ \A k \in 1..Len(figs[FigureOf(41)].lines) :
               /\ figs[FigureOf(41)].lines[k] = [off |-> 0, col |-> <<k - 1, 100>>]
               /\ ColourInUnitInterval(figs[FigureOf(41)].lines[k])
        /\ figs[FigureOf(41)].fills = <<>>
        /\ Done(15) => Len(figs[FigureOf(41)].lines) = 100

\* C10: in a run that creates a figure at line 31 (41) and goes on to the loop
\* below it, that figure holds exactly the loop's output so far: lines and
\* bands at offsets 5, 10, 15 and nothing else (lines with colour index
\* 0/100, 1/100, ..., each in [0, 1), and no band), 3 (100) of them once the
\* loop is complete; and a loop that has begun does not run for ever.
C10_FigureContents ==
    /\ [](Fig1Content /\ Fig2Content)
    /\ InLoop(33, 36) ~> ~InLoop(33, 36)
    /\ InLoop(43, 47) ~> ~InLoop(43, 47)

C10_Witness ==
    /\ Covers(9) /\ Done(15)
    /\ Len(figs[FigureOf(31)].lines) = 3
    /\ Len(figs[FigureOf(41)].lines) = 100

====
